---- MODULE Spec2Model ----
(***************************************************************************)
(* Model of dtaianomaly's Pipeline (pipeline/Pipeline.py) and of the       *)
(* output-configuration resolver (workflow/handle_output_configuration.py).*)
(*                                                                         *)
(* Objects are named by strings.  A time series is a sequence of integers  *)
(* taken modulo Modulus; labels are a sequence of 0/1 or NoneY (Python's   *)
(* None).  A failed call is a record whose err field names the exception.  *)
(***************************************************************************)
EXTENDS Integers, Sequences, FiniteSets, TLC

\* ------------------------------------------------------------------ bounds
MaxLen == 4        \* longest input time series
Modulus == 4       \* values of a time series are kept in 0..Modulus-1
MaxChain == 2      \* longest list of preprocessors given to the constructor

\* ----------------------------------------------------------------- objects
Preprocessors == {"identity", "droplast", "shift"}
Detectors == {"echo", "ones", "faildet"}
Others == {"plain"}
Objects == Preprocessors \cup Detectors \cup Others

Chained == "chained"     \* the ChainedPreprocessor a Pipeline creates
NoObject == "null"

Supervision == [echo |-> "supervised", ones |-> "unsupervised", faildet |-> "semi_supervised"]

NoError == "none"
InvalidArgument == "TypeError"

NoneY == <<-1>>          \* y = None
NotFit == -1             \* a preprocessor that was never fitted

\* isinstance(o, Preprocessor) / isinstance(o, BaseDetector)
IsPreprocessor(o) == o \in Preprocessors
IsDetector(o) == o \in Detectors

\* A constructor argument: a single object or a Python list of objects.
Single(o) == [list |-> FALSE, obj |-> o, items |-> <<>>]
List(s) == [list |-> TRUE, obj |-> NoObject, items |-> s]

RECURSIVE SeqsUpTo(_, _)
SeqsUpTo(S, n) ==
    IF n = 0 THEN {<<>>}
    ELSE LET shorter == SeqsUpTo(S, n - 1)
         IN shorter \cup {Append(s, e) : s \in {t \in shorter : Len(t) = n - 1}, e \in S}

PreprocessorArgs ==
    {Single(o) : o \in Objects}
        \cup {List(s) : s \in SeqsUpTo(Preprocessors \cup Others, MaxChain)}
DetectorArgs == Objects

\* ------------------------------------------------------------------ inputs
\* constant 0 for start 0, otherwise a ramp start, 2*start, 3*start, ...
Signal(start, n) == [i \in 1..n |-> (start * i) % Modulus]
Starts == {0, 1}
Data == {Signal(v, n) : v \in Starts, n \in 0..MaxLen}
\* the labels 0, 1, 0, 1, ... of a series of length n
Labels(n) == [i \in 1..n |-> (i + 1) % 2]
LabelsFor(X) == {NoneY, Labels(Len(X))}

\* ------------------------------------------------------- preprocessor stubs
DropLastSeq(s) == IF Len(s) = 0 THEN s ELSE SubSeq(s, 1, Len(s) - 1)
DropLastY(y) == IF y = NoneY THEN NoneY ELSE DropLastSeq(y)
ShiftBy(X, c) == [i \in 1..Len(X) |-> (X[i] - c + Modulus) % Modulus]

\* o.fit_transform(X, y) of one step whose fitted parameter is `param`
StepFitTransform(o, X, y, param) ==
    CASE o = "identity" -> [err |-> NoError, X |-> X, y |-> y, param |-> 0]
      [] o = "droplast" -> [err |-> NoError, X |-> DropLastSeq(X), y |-> DropLastY(y), param |-> 0]
      [] OTHER ->
            IF Len(X) = 0
            THEN [err |-> "IndexError", X |-> X, y |-> y, param |-> param]
            ELSE [err |-> NoError, X |-> ShiftBy(X, X[Len(X)]), y |-> y, param |-> X[Len(X)]]

\* o.transform(X, y) of one step; never changes the fitted parameter
StepTransform(o, X, y, param) ==
    CASE o = "identity" -> [err |-> NoError, X |-> X, y |-> y, param |-> param]
      [] o = "droplast" -> [err |-> NoError, X |-> DropLastSeq(X), y |-> DropLastY(y), param |-> param]
      [] OTHER ->
            IF param = NotFit
            THEN [err |-> "NotFittedError", X |-> X, y |-> y, param |-> param]
            ELSE [err |-> NoError, X |-> ShiftBy(X, param), y |-> y, param |-> param]

StepApply(method, o, X, y, param) ==
    IF method = "fit_transform" THEN StepFitTransform(o, X, y, param)
    ELSE StepTransform(o, X, y, param)

Call(o, method, X, y, err) == [obj |-> o, method |-> method, X |-> X, y |-> y, err |-> err]

\* --------------------------------------------------- ChainedPreprocessor
\* is_valid_list(value, target_type)
is_valid_list(p) == p.list /\ \A i \in 1..Len(p.items) : IsPreprocessor(p.items[i])

\* ChainedPreprocessor(base_preprocessors)
ChainedPreprocessorInit(items) ==
    IF Len(items) = 0 \/ \E i \in 1..Len(items) : ~IsPreprocessor(items[i])
    THEN [err |-> InvalidArgument, base_preprocessors |-> <<>>]
    ELSE [err |-> NoError, base_preprocessors |-> items]

\* The fold of ChainedPreprocessor.fit_transform / transform over the steps
\* from index i on: step i receives what step i-1 returned; the first
\* failure aborts the fold.
RECURSIVE ChainedApply(_, _, _, _, _, _, _)
ChainedApply(method, steps, i, X, y, fit, calls) ==
    IF i > Len(steps) THEN [err |-> NoError, X |-> X, y |-> y, fitted |-> fit, calls |-> calls]
    ELSE LET o == steps[i]
             r == StepApply(method, o, X, y, fit[o])
             fit2 == [fit EXCEPT ![o] = r.param]
             calls2 == Append(calls, Call(o, method, X, y, r.err))
         IN IF r.err # NoError
            THEN [err |-> r.err, X |-> X, y |-> y, fitted |-> fit2, calls |-> calls2]
            ELSE ChainedApply(method, steps, i + 1, r.X, r.y, fit2, calls2)

\* self.preprocessor.<method>(X, y): dispatch on the object the Pipeline holds
PreprocessorApply(method, pre, steps, X, y, fit) ==
    IF pre = Chained
    THEN LET r == ChainedApply(method, steps, 1, X, y, fit, <<>>)
         IN [r EXCEPT !.calls = <<Call(Chained, method, X, y, r.err)>> \o r.calls]
    ELSE LET r == StepApply(method, pre, X, y, fit[pre])
         IN [err |-> r.err, X |-> r.X, y |-> r.y,
             fitted |-> [fit EXCEPT ![pre] = r.param],
             calls |-> <<Call(pre, method, X, y, r.err)>>]

\* ----------------------------------------------------------- detector stubs
Unfitted == [fit |-> FALSE, y |-> NoneY]

\* d.fit(X, y)
DetectorFit(d, X, y, st) ==
    CASE d = "echo" ->
            IF y = NoneY THEN [err |-> "ValueError", st |-> st]
            ELSE [err |-> NoError, st |-> [fit |-> TRUE, y |-> y]]
      [] d = "ones" -> [err |-> NoError, st |-> [fit |-> TRUE, y |-> NoneY]]
      [] OTHER -> [err |-> "DetError", st |-> st]

\* d.decision_function(X)
DetectorScore(d, X, st) ==
    IF ~st.fit THEN [err |-> "NotFittedError", scores |-> <<>>]
    ELSE CASE d = "echo" -> [err |-> NoError, scores |-> st.y]
           [] OTHER -> [err |-> NoError, scores |-> [i \in 1..Len(X) |-> 1]]

\* ---------------------------------------------------------------- Pipeline
NoPipeline == [preprocessor |-> NoObject, detector |-> NoObject, supervision |-> "null"]

\* Pipeline.py:35
ValidPreprocessorArg(p) == (~p.list /\ IsPreprocessor(p.obj)) \/ is_valid_list(p)

\* variant: the detector argument is not type-checked
ValidDetectorArgUnchecked(d) == TRUE

\* Pipeline.py:37
ValidDetectorArg(d) == IsDetector(d)

\* variant: the base class is initialised with a fixed supervision mode
InitSupervisionFixed(d) == "unsupervised"

\* Pipeline.py:39  super().__init__(detector.supervision)
InitSupervision(d) == Supervision[d]

\* variant: a list is stored as the chain's steps without constructing
\* (and so without validating) a ChainedPreprocessor
WrapPreprocessorUnchecked(p) ==
    IF p.list
    THEN [err |-> NoError, preprocessor |-> Chained, base_preprocessors |-> p.items]
    ELSE [err |-> NoError, preprocessor |-> p.obj, base_preprocessors |-> <<>>]

Reverse(s) == [i \in 1..Len(s) |-> s[Len(s) + 1 - i]]

\* variant: the chain is built from the list in reverse order
WrapPreprocessorReversed(p) ==
    IF p.list
    THEN LET c == ChainedPreprocessorInit(Reverse(p.items))
         IN [err |-> c.err, preprocessor |-> Chained, base_preprocessors |-> c.base_preprocessors]
    ELSE [err |-> NoError, preprocessor |-> p.obj, base_preprocessors |-> <<>>]

\* Pipeline.py:41-44
WrapPreprocessor(p) ==
    IF p.list
    THEN LET c == ChainedPreprocessorInit(p.items)
         IN [err |-> c.err, preprocessor |-> Chained, base_preprocessors |-> c.base_preprocessors]
    ELSE [err |-> NoError, preprocessor |-> p.obj, base_preprocessors |-> <<>>]

\* Pipeline.__init__(preprocessor, detector)
PipelineInit(p, d) ==
    IF ~ValidPreprocessorArg(p) THEN [err |-> InvalidArgument, self |-> NoPipeline, base_preprocessors |-> <<>>]
    ELSE IF ~ValidDetectorArg(d) THEN [err |-> InvalidArgument, self |-> NoPipeline, base_preprocessors |-> <<>>]
    \* Pipeline.py:39 reads detector.supervision, which only a detector has
    ELSE IF ~IsDetector(d) THEN [err |-> "AttributeError", self |-> NoPipeline, base_preprocessors |-> <<>>]
    ELSE LET w == WrapPreprocessor(p)
         IN IF w.err # NoError
            THEN [err |-> w.err, self |-> NoPipeline, base_preprocessors |-> <<>>]
            ELSE [err |-> NoError,
                  self |-> [preprocessor |-> w.preprocessor, detector |-> d,
                            supervision |-> InitSupervision(d)],
                  base_preprocessors |-> w.base_preprocessors]

\* variant: detector.fit receives the caller's (X, y)
FitDetectorArgsOriginal(X, y, r) == [X |-> X, y |-> y]

\* Pipeline.py:63-64: the (X, y) handed to detector.fit
FitDetectorArgs(X, y, r) == [X |-> r.X, y |-> r.y]

\* Pipeline.py:63: the method fit calls on the preprocessor
FitPreprocessorMethod == "fit_transform"

\* Pipeline.py:63-65: outcome of fit once fit_transform returned r
FitAfterTransform(s, X, y, r, dfit) ==
    LET a == FitDetectorArgs(X, y, r)
        dr == DetectorFit(s.detector, a.X, a.y, dfit[s.detector])
    IN [err |-> dr.err, fitted |-> r.fitted,
        dfit |-> [dfit EXCEPT ![s.detector] = dr.st],
        calls |-> Append(r.calls, Call(s.detector, "fit", a.X, a.y, dr.err)),
        out |-> IF dr.err = NoError THEN <<"self">> ELSE <<>>]

\* variant: the failure of fit_transform is swallowed and fit returns self
FitTransformSwallowed(r, dfit) ==
    [err |-> NoError, fitted |-> r.fitted, dfit |-> dfit, calls |-> r.calls, out |-> <<"self">>]

\* Pipeline.py:63: outcome of fit when fit_transform raised
FitTransformRaised(r, dfit) ==
    [err |-> r.err, fitted |-> r.fitted, dfit |-> dfit, calls |-> r.calls, out |-> <<>>]

\* Pipeline.fit(X, y)
PipelineFit(s, steps, X, y, fit, dfit) ==
    LET r == PreprocessorApply(FitPreprocessorMethod, s.preprocessor, steps, X, y, fit)
    IN IF r.err # NoError THEN FitTransformRaised(r, dfit)
       ELSE FitAfterTransform(s, X, y, r, dfit)

\* variant: decision_function refits the preprocessor
ScorePreprocessorRefit == "fit_transform"

\* Pipeline.py:84: the method decision_function calls on the preprocessor
ScorePreprocessorMethod == "transform"

\* Pipeline.py:84: the labels decision_function passes (y=None)
ScoreLabels == NoneY

\* variant: the scores are padded or cut to the length of the input
ScoreReturnAligned(scores, X) ==
    [i \in 1..Len(X) |-> IF i <= Len(scores) THEN scores[i] ELSE 0]

\* Pipeline.py:85: what decision_function returns
ScoreReturn(scores, X) == scores

\* Pipeline.decision_function(X)
PipelineScore(s, steps, X, fit, dfit) ==
    LET r == PreprocessorApply(ScorePreprocessorMethod, s.preprocessor, steps, X, ScoreLabels, fit)
    IN IF r.err # NoError
       THEN [err |-> r.err, fitted |-> r.fitted, dfit |-> dfit, calls |-> r.calls, out |-> <<>>]
       ELSE LET dr == DetectorScore(s.detector, r.X, dfit[s.detector])
            IN [err |-> dr.err, fitted |-> r.fitted, dfit |-> dfit,
                calls |-> Append(r.calls, Call(s.detector, "decision_function", r.X, NoneY, dr.err)),
                out |-> IF dr.err = NoError THEN ScoreReturn(dr.scores, X) ELSE <<>>]

\* ------------------------------------------- handle_output_configuration.py
\* A path is the sequence of its components: f'{a}/{b}' of two paths is
\* a \o b.  <<>> is the working directory.  Names are non-empty and
\* relative.
DirectoryPaths == {<<"out">>}
AlgorithmNames == {<<"iforest">>, <<"lof">>}
DatasetIndexes == {<<"Demo", "Demo1">>, <<"ucr", "ECG">>}
ConfigurationFile == "conf.json"
ConfigurationFiles == {ConfigurationFile, "missing.json"}

NoPath == <<>>

\* The keyword arguments of OutputConfiguration(**kwargs): `keys` are the
\* keys that are present, a key that is absent has the value NoPath / FALSE.
Kwargs(dp, an, plot, scores) ==
    [keys |-> (IF dp = NoPath THEN {} ELSE {"directory_path"})
                \cup (IF an = NoPath THEN {} ELSE {"algorithm_name"})
                \cup (IF plot THEN {"save_anomaly_scores_plot"} ELSE {})
                \cup (IF scores THEN {"save_anomaly_scores"} ELSE {}),
     directory_path |-> dp, algorithm_name |-> an,
     save_anomaly_scores_plot |-> plot, save_anomaly_scores |-> scores]

Mappings ==
    {Kwargs(dp, an, plot, scores) :
        dp \in DirectoryPaths \cup {NoPath}, an \in AlgorithmNames \cup {NoPath},
        plot \in BOOLEAN, scores \in BOOLEAN}

NoConfiguration == Kwargs(NoPath, NoPath, FALSE, FALSE)

\* handle_output_configuration.py:14-16  OutputConfiguration(**kwargs)
OutputConfigurationInit(kwargs) == kwargs

\* handle_output_configuration.py:33,37,38,44  class attribute defaults
results_file == "results.csv"
anomaly_scores_plots_directory == "anomaly_score_plots"
anomaly_scores_plots_file_format == "svg"
anomaly_scores_directory == "anomaly_scores"

\* str.lower() on the names used here
Lower(name) ==
    CASE name = "Demo" -> "demo"
      [] name = "Demo1" -> "demo1"
      [] name = "ECG" -> "ecg"
      [] OTHER -> name

\* OutputConfiguration.dataset_index_to_str
dataset_index_to_str(dataset_index) ==
    Lower(dataset_index[1]) \o "_" \o Lower(dataset_index[2])

\* directory_path and algorithm_name have no class default
HasDirectory(oc) == {"directory_path", "algorithm_name"} \subseteq oc.keys

\* variant: the directory is the base directory alone
directory_base_only(oc) == oc.directory_path

\* OutputConfiguration.directory
directory(oc) == oc.directory_path \o oc.algorithm_name

\* OutputConfiguration.results_path
results_path(oc) == directory(oc) \o <<results_file>>

\* OutputConfiguration.anomaly_score_plots_directory_path
anomaly_score_plots_directory_path(oc) == directory(oc) \o <<anomaly_scores_plots_directory>>

\* OutputConfiguration.anomaly_score_plot_path
anomaly_score_plot_path(oc, dataset_index) ==
    anomaly_score_plots_directory_path(oc)
        \o <<dataset_index_to_str(dataset_index) \o "." \o anomaly_scores_plots_file_format>>

\* OutputConfiguration.anomaly_scores_directory_path
anomaly_scores_directory_path(oc) == directory(oc) \o <<anomaly_scores_directory>>

\* OutputConfiguration.anomaly_scores_path
anomaly_scores_path(oc, dataset_index) ==
    anomaly_scores_directory_path(oc) \o <<dataset_index_to_str(dataset_index)>>

\* --- the file system: a set of directories and a set of other entries
Prefixes(path) == {SubSeq(path, 1, n) : n \in 0..Len(path)}
Parent(path) == SubSeq(path, 1, Len(path) - 1)
Exists(path, dirs, files) == path \in dirs \/ path \in files

\* os.makedirs(path, exist_ok=True)
MakeDirs(path, dirs, files) ==
    IF path \in files THEN [err |-> "FileExistsError", dirs |-> dirs]
    ELSE IF Prefixes(path) \cap files # {} THEN [err |-> "NotADirectoryError", dirs |-> dirs]
    ELSE [err |-> NoError, dirs |-> dirs \cup Prefixes(path)]

\* os.mkdir(path)
MkDir(path, dirs, files) ==
    IF Exists(path, dirs, files) THEN [err |-> "FileExistsError", dirs |-> dirs]
    ELSE IF Parent(path) \in files THEN [err |-> "NotADirectoryError", dirs |-> dirs]
    ELSE IF Parent(path) \notin dirs THEN [err |-> "FileNotFoundError", dirs |-> dirs]
    ELSE [err |-> NoError, dirs |-> dirs \cup {path}]

\* An argument of the resolver: a dict, a path to a JSON file, or an
\* OutputConfiguration object.
Argument(form, cfg, file) == [form |-> form, cfg |-> cfg, file |-> file]
Arguments ==
    {Argument("mapping", m, "") : m \in Mappings}
        \cup {Argument("object", OutputConfigurationInit(m), "") : m \in Mappings}
        \cup {Argument("path", NoConfiguration, f) : f \in ConfigurationFiles}

NoDocument == [exists |-> FALSE, content |-> NoConfiguration]
Document(m) == [exists |-> TRUE, content |-> m]

\* handle_output_configuration.py:92
\* OutputConfiguration(**plain_output_configuration, algorithm_name=algorithm_name)
BuildConfiguration(m, algorithm_name) ==
    IF "algorithm_name" \in m.keys
    THEN [err |-> "TypeError", oc |-> NoConfiguration]
    ELSE [err |-> NoError,
          oc |-> OutputConfigurationInit(
                    [m EXCEPT !.keys = @ \cup {"algorithm_name"},
                              !.algorithm_name = algorithm_name])]

\* handle_output_configuration.py:82-92
Configure(arg, algorithm_name, doc) ==
    IF arg.form = "object" THEN [err |-> NoError, oc |-> arg.cfg]
    ELSE IF arg.form = "path"
    THEN IF arg.file # ConfigurationFile \/ ~doc.exists
         THEN [err |-> "FileNotFoundError", oc |-> NoConfiguration]
         ELSE BuildConfiguration(doc.content, algorithm_name)
    ELSE BuildConfiguration(arg.cfg, algorithm_name)

\* variant: the sub-directory is made whenever its flag is set
NeedsMkDirUnguarded(flag, path, dirs, files) == flag

\* handle_output_configuration.py:98,102  the guard of each os.mkdir
NeedsMkDir(flag, path, dirs, files) == flag /\ ~Exists(path, dirs, files)

\* handle_output_configuration.py:98-99 and 102-103
MkDirIfNeeded(flag, path, dirs, files) ==
    IF NeedsMkDir(flag, path, dirs, files) THEN MkDir(path, dirs, files)
    ELSE [err |-> NoError, dirs |-> dirs]

\* handle_output_configuration(plain_output_configuration, algorithm_name)
handle_output_configuration(arg, algorithm_name, dirs, files, doc) ==
    LET c == Configure(arg, algorithm_name, doc)
        failed(e, ds) == [err |-> e, ret |-> NoConfiguration, dirs |-> ds]
    IN IF c.err # NoError THEN failed(c.err, dirs)
       ELSE IF ~HasDirectory(c.oc) THEN failed("AttributeError", dirs)
       ELSE LET m == MakeDirs(directory(c.oc), dirs, files)
            IN IF m.err # NoError THEN failed(m.err, m.dirs)
               ELSE LET p == MkDirIfNeeded(c.oc.save_anomaly_scores_plot,
                                           anomaly_score_plots_directory_path(c.oc), m.dirs, files)
                    IN IF p.err # NoError THEN failed(p.err, p.dirs)
                       ELSE LET a == MkDirIfNeeded(c.oc.save_anomaly_scores,
                                                   anomaly_scores_directory_path(c.oc), p.dirs, files)
                            IN IF a.err # NoError THEN failed(a.err, a.dirs)
                               ELSE [err |-> NoError, ret |-> c.oc, dirs |-> a.dirs]

\* ------------------------------------------------------------------- state
VARIABLES
    pc,                  \* "start", "constructed" or "failed" (constructor raised)
    argP, argD,          \* the arguments the constructor was called with
    self,                \* the Pipeline's attributes
    base_preprocessors,  \* the steps of the ChainedPreprocessor, if one was made
    fitted,              \* fitted parameter of every preprocessor object
    dfit,                \* fitted state of every detector object
    last,                \* the last Pipeline call: arguments, component calls, result
    fs_dirs, fs_files,   \* the directories and the other entries of the file system
    doc,                 \* the JSON document at ConfigurationFile
    out                  \* the last call of handle_output_configuration

pipelineVars == <<pc, argP, argD, self, base_preprocessors, fitted, dfit, last>>
outputVars == <<fs_dirs, fs_files, doc, out>>
vars == <<pc, argP, argD, self, base_preprocessors, fitted, dfit, last,
          fs_dirs, fs_files, doc, out>>

NoCall == [op |-> "none", X |-> <<>>, y |-> NoneY, err |-> NoError, calls |-> <<>>, out |-> <<>>]
NoResolve == [op |-> "none", arg |-> Argument("mapping", NoConfiguration, ""),
              algorithm_name |-> NoPath, err |-> NoError, ret |-> NoConfiguration]

\* no Pipeline has been constructed yet
InitPipeline ==
    /\ pc = "start"
    /\ argP = Single(NoObject)
    /\ argD = NoObject
    /\ self = NoPipeline
    /\ base_preprocessors = <<>>
    /\ fitted = [o \in Preprocessors |-> NotFit]
    /\ dfit = [d \in Detectors |-> Unfitted]
    /\ last = NoCall

\* entries that may be in the way before the resolver is first called
InitialFiles ==
    {{}, {<<"out", "iforest">>}, {<<"out", "lof", anomaly_scores_directory>>}}
Documents ==
    {NoDocument,
     Document(Kwargs(<<"out">>, NoPath, TRUE, TRUE)),
     Document(Kwargs(<<"out">>, <<"lof">>, FALSE, FALSE))}

InitOutput ==
    /\ fs_files \in InitialFiles
    /\ fs_dirs = UNION {Prefixes(Parent(f)) : f \in fs_files} \cup {<<>>}
    /\ doc \in Documents
    /\ out = NoResolve

Init ==
    /\ InitPipeline
    /\ fs_files = {}
    /\ fs_dirs = {<<>>}
    /\ doc = NoDocument
    /\ out = NoResolve

Construct ==
    /\ pc = "start"
    /\ \E p \in PreprocessorArgs, d \in DetectorArgs :
         LET r == PipelineInit(p, d)
         IN /\ argP' = p
            /\ argD' = d
            /\ self' = r.self
            /\ base_preprocessors' = r.base_preprocessors
            /\ pc' = IF r.err = NoError THEN "constructed" ELSE "failed"
            /\ last' = [NoCall EXCEPT !.op = "init", !.err = r.err]
    /\ UNCHANGED <<fitted, dfit>>
    /\ UNCHANGED outputVars

Fit ==
    /\ pc = "constructed"
    /\ \E X \in Data : \E y \in LabelsFor(X) :
         LET r == PipelineFit(self, base_preprocessors, X, y, fitted, dfit)
         IN /\ fitted' = r.fitted
            /\ dfit' = r.dfit
            /\ last' = [op |-> "fit", X |-> X, y |-> y, err |-> r.err, calls |-> r.calls, out |-> r.out]
    /\ UNCHANGED <<pc, argP, argD, self, base_preprocessors>>
    /\ UNCHANGED outputVars

Score ==
    /\ pc = "constructed"
    /\ \E X \in Data :
         LET r == PipelineScore(self, base_preprocessors, X, fitted, dfit)
         IN /\ fitted' = r.fitted
            /\ dfit' = r.dfit
            /\ last' = [op |-> "score", X |-> X, y |-> NoneY, err |-> r.err, calls |-> r.calls, out |-> r.out]
    /\ UNCHANGED <<pc, argP, argD, self, base_preprocessors>>
    /\ UNCHANGED outputVars

Next == Construct \/ Fit \/ Score

Spec == Init /\ [][Next]_vars

\* the resolver on its own, called any number of times on one file system
InitResolver == InitPipeline /\ InitOutput

Resolve ==
    /\ \E arg \in Arguments, name \in AlgorithmNames :
         LET r == handle_output_configuration(arg, name, fs_dirs, fs_files, doc)
         IN /\ fs_dirs' = r.dirs
            /\ out' = [op |-> "resolve", arg |-> arg, algorithm_name |-> name,
                       err |-> r.err, ret |-> r.ret]
    /\ UNCHANGED <<fs_files, doc>>
    /\ UNCHANGED pipelineVars

NextResolver == Resolve

SpecResolver == InitResolver /\ [][NextResolver]_vars

\* ------------------------------------------------------------ Pipeline claims
Untouched ==
    /\ fitted = [o \in Preprocessors |-> NotFit]
    /\ dfit = [d \in Detectors |-> Unfitted]
    /\ last.calls = <<>>

Methods(calls, o, m) == {i \in 1..Len(calls) : calls[i].obj = o /\ calls[i].method = m}
MethodCalls(calls, m) == {i \in 1..Len(calls) : calls[i].method = m}

\* C1: constructing a Pipeline from an empty list and a valid detector fails
\* with InvalidArgument at construction; no Pipeline exists afterwards and no
\* operation of any component was invoked.
C1_EmptyListRejected ==
    (pc # "start" /\ argP = List(<<>>) /\ IsDetector(argD))
        => /\ pc = "failed"
           /\ last.op = "init"
           /\ last.err = InvalidArgument
           /\ self = NoPipeline
           /\ Untouched

C1_Witness == pc = "failed" /\ argP = List(<<>>) /\ argD = "ones"

\* the arguments the constructor is documented to accept
ConformingPreprocessorArg(p) ==
    \/ ~p.list /\ p.obj \in Preprocessors
    \/ p.list /\ \A i \in 1..Len(p.items) : p.items[i] \in Preprocessors

\* C2: a construction whose preprocessor argument is neither a Preprocessor
\* nor a list of Preprocessors, or whose detector argument is not a detector,
\* fails with InvalidArgument at once: no component method ran, and no fit
\* or score ever runs on such arguments.
C2_InvalidArgsRejected ==
    (pc # "start" /\ (~ConformingPreprocessorArg(argP) \/ argD \notin Detectors))
        => /\ pc = "failed"
           /\ last.op = "init"
           /\ last.err = InvalidArgument
           /\ self = NoPipeline
           /\ Untouched

C2_Witness ==
    /\ pc = "failed"
    /\ argP = List(<<"identity", "shift">>)
    /\ argD = "plain"
    /\ last.err = InvalidArgument

\* C3: in every state of a constructed Pipeline its supervision mode is the
\* supervision mode of the detector it wraps, which is the detector given.
C3_SupervisionOfDetector ==
    pc = "constructed"
        => /\ self.detector = argD
           /\ self.supervision = Supervision[argD]

C3_Witness ==
    /\ pc = "constructed"
    /\ argP.list
    /\ last.op = "score"
    /\ dfit[self.detector].fit
    /\ self.supervision = "supervised"

\* C4: fit calls preprocessor.fit_transform(X, y) first and exactly once,
\* then detector.fit exactly once with the pair fit_transform returned; with
\* the identity preprocessor and the echo detector, fit([1,2,3], [0,1,0])
\* followed by a score of [1,2,3] returns [0,1,0].
C4_FitOrder ==
    [][ /\ last'.op = "fit" =>
            LET calls == last'.calls
                r == PreprocessorApply("fit_transform", self.preprocessor,
                                       base_preprocessors, last'.X, last'.y, fitted)
            IN /\ Len(calls) >= 1
               /\ calls[1].obj = self.preprocessor
               /\ calls[1].method = "fit_transform"
               /\ calls[1].X = last'.X
               /\ calls[1].y = last'.y
               /\ Methods(calls, self.preprocessor, "fit_transform") = {1}
               /\ r.err = NoError =>
                    /\ MethodCalls(calls, "fit") = {Len(calls)}
                    /\ Len(calls) > 1
                    /\ calls[Len(calls)].obj = self.detector
                    /\ calls[Len(calls)].X = r.X
                    /\ calls[Len(calls)].y = r.y
        /\ ( /\ self.preprocessor = "identity"
             /\ self.detector = "echo"
             /\ last.op = "fit"
             /\ last.err = NoError
             /\ last.X = <<1, 2, 3>>
             /\ last.y = <<0, 1, 0>>
             /\ last'.op = "score"
             /\ last'.X = <<1, 2, 3>> )
           => (last'.err = NoError /\ last'.out = <<0, 1, 0>>) ]_vars

C4_Witness ==
    /\ self.preprocessor = "identity"
    /\ self.detector = "echo"
    /\ last.op = "score"
    /\ last.X = <<1, 2, 3>>
    /\ dfit["echo"].y = <<0, 1, 0>>
    /\ last.out = <<0, 1, 0>>

\* C5: decision_function calls preprocessor.transform with y = None, passes
\* only the transformed data to the detector and returns the detector's
\* scores as they are; with the drop-last preprocessor and the ones detector
\* the score of [0,0,0,0] is [1,1,1].
C5_ScoreDelegates ==
    (pc = "constructed" /\ last.op = "score") =>
        LET calls == last.calls
            r == PreprocessorApply("transform", self.preprocessor,
                                   base_preprocessors, last.X, NoneY, fitted)
            d == DetectorScore(self.detector, r.X, dfit[self.detector])
        IN /\ Len(calls) >= 1
           /\ calls[1] = Call(self.preprocessor, "transform", last.X, NoneY, r.err)
           /\ r.err = NoError =>
                /\ calls[Len(calls)] = Call(self.detector, "decision_function", r.X, NoneY, d.err)
                /\ MethodCalls(calls, "decision_function") = {Len(calls)}
                /\ last.err = d.err
                /\ d.err = NoError => last.out = d.scores
           /\ ( /\ self.preprocessor = "droplast"
                /\ self.detector = "ones"
                /\ last.X = <<0, 0, 0, 0>>
                /\ last.err = NoError ) => last.out = <<1, 1, 1>>

C5_Witness ==
    /\ self.preprocessor = "droplast"
    /\ self.detector = "ones"
    /\ last.op = "score"
    /\ last.X = <<0, 0, 0, 0>>
    /\ last.out = <<1, 1, 1>>

\* C6: a failure of a component during fit or score ends the call with that
\* same failure; when fit_transform fails detector.fit is not called, and
\* when detector.fit fails the preprocessor keeps the state fit_transform
\* gave it.
C6_FailurePropagates ==
    [][ /\ last'.op = "fit" =>
            LET r == PreprocessorApply("fit_transform", self.preprocessor,
                                       base_preprocessors, last'.X, last'.y, fitted)
                d == DetectorFit(self.detector, r.X, r.y, dfit[self.detector])
            IN /\ r.err # NoError =>
                    /\ last'.err = r.err
                    /\ last'.out = <<>>
                    /\ MethodCalls(last'.calls, "fit") = {}
                    /\ dfit' = dfit
                    /\ fitted' = r.fitted
               /\ (r.err = NoError /\ d.err # NoError) =>
                    /\ last'.err = d.err
                    /\ last'.out = <<>>
                    /\ fitted' = r.fitted
                    /\ dfit' = dfit
        /\ last'.op = "score" =>
            LET r == PreprocessorApply("transform", self.preprocessor,
                                       base_preprocessors, last'.X, NoneY, fitted)
                d == DetectorScore(self.detector, r.X, dfit[self.detector])
            IN /\ r.err # NoError =>
                    /\ last'.err = r.err
                    /\ last'.out = <<>>
                    /\ MethodCalls(last'.calls, "decision_function") = {}
               /\ (r.err = NoError /\ d.err # NoError) =>
                    /\ last'.err = d.err
                    /\ last'.out = <<>>
        /\ last'.op \in {"fit", "score"} =>
            /\ last'.err = last'.calls[Len(last'.calls)].err
            /\ \A i \in 1..(Len(last'.calls) - 1) :
                 last'.calls[i].err # NoError => last'.calls[i].obj = Chained ]_vars

C6_Witness ==
    /\ last.op = "fit"
    /\ last.err = "ValueError"
    /\ self.preprocessor = Chained
    /\ fitted["shift"] = 3
    /\ ~dfit[self.detector].fit

\* the fold written out: step i is applied to what step i-1 returned
RECURSIVE FoldFitTransform(_, _, _, _)
FoldFitTransform(items, i, X, y) ==
    IF i > Len(items) THEN [err |-> NoError, X |-> X, y |-> y]
    ELSE LET r == StepFitTransform(items[i], X, y, NotFit)
         IN IF r.err # NoError THEN [err |-> r.err, X |-> X, y |-> y]
            ELSE FoldFitTransform(items, i + 1, r.X, r.y)

RECURSIVE FoldTransform(_, _, _, _, _)
FoldTransform(items, i, X, y, fit) ==
    IF i > Len(items) THEN [err |-> NoError, X |-> X, y |-> y]
    ELSE LET r == StepTransform(items[i], X, y, fit[items[i]])
         IN IF r.err # NoError THEN [err |-> r.err, X |-> X, y |-> y]
            ELSE FoldTransform(items, i + 1, r.X, r.y, fit)

StepCalls(calls) == SelectSeq(calls, LAMBDA c : c.obj \in Preprocessors)

\* C7: the chain a Pipeline builds from a non-empty list of preprocessors
\* applies fit_transform to the steps from left to right in the order of the
\* list, each step receiving what the previous one returned, and its result
\* is the result of that fold; transform is the same fold with each step's
\* transform and leaves every step's fitted state as it was.
C7_ChainIsFold ==
    [][ (pc = "constructed" /\ argP.list /\ last'.op \in {"fit", "score"}) =>
            LET calls == last'.calls
                steps == StepCalls(calls)
                f == IF last'.op = "fit"
                     THEN FoldFitTransform(argP.items, 1, last'.X, last'.y)
                     ELSE FoldTransform(argP.items, 1, last'.X, NoneY, fitted)
            IN /\ Len(steps) <= Len(argP.items)
               /\ \A i \in 1..Len(steps) :
                    /\ steps[i].obj = argP.items[i]
                    /\ steps[i].method = (IF last'.op = "fit" THEN "fit_transform" ELSE "transform")
               /\ calls[1].err = f.err
               /\ f.err = NoError =>
                    /\ Len(steps) = Len(argP.items)
                    /\ calls[Len(calls)].obj = self.detector
                    /\ calls[Len(calls)].X = f.X
                    /\ last'.op = "fit" => calls[Len(calls)].y = f.y
               /\ last'.op = "score" => fitted' = fitted ]_vars

C7_Witness ==
    /\ argP = List(<<"droplast", "shift">>)
    /\ last.op = "fit"
    /\ last.X = <<1, 2, 3>>
    /\ last.err = NoError
    /\ fitted["shift"] = 2
    /\ last.calls[Len(last.calls)].X = ShiftBy(<<1, 2>>, 2)

\* C10: after construction the Pipeline keeps referring to the same
\* preprocessor object (the one given, or the chain made from the given list)
\* and the same detector object; a score changes no fitted state and calls
\* only transform and decision_function.
C10_StructureFixed ==
    [][ pc = "constructed" =>
            /\ self' = self
            /\ base_preprocessors' = base_preprocessors
            /\ self.detector = argD
            /\ self.preprocessor = (IF argP.list THEN Chained ELSE argP.obj)
            /\ base_preprocessors = argP.items
            /\ last'.op = "score" =>
                 /\ fitted' = fitted
                 /\ dfit' = dfit
                 /\ \A i \in 1..Len(last'.calls) :
                      last'.calls[i].method \in {"transform", "decision_function"} ]_vars

C10_Witness ==
    /\ argP = List(<<"shift", "droplast">>)
    /\ last.op = "score"
    /\ last.err = NoError
    /\ fitted["shift"] # NotFit
    /\ dfit[self.detector].fit
\* ------------------------------------------------------------ resolver claims
IsUnder(path, root) == Len(path) > Len(root) /\ SubSeq(path, 1, Len(root)) = root

DerivedPaths(oc) ==
    {results_path(oc)}
        \cup {anomaly_score_plot_path(oc, i) : i \in DatasetIndexes}
        \cup {anomaly_scores_path(oc, i) : i \in DatasetIndexes}

AllUnder(oc, root) == \A path \in DerivedPaths(oc) : IsUnder(path, root)

Returned == out.op = "resolve" /\ out.err = NoError

\* C8 as stated: whatever the form of the argument, the derived paths of the
\* returned configuration lie under <base directory>/<algorithm name given>.
C8_PathsUnderGivenName ==
    Returned => AllUnder(out.ret, out.ret.directory_path \o out.algorithm_name)

\* C8 amended: for a mapping or a path to a JSON document the derived paths
\* of the returned configuration lie under <base directory>/<algorithm name
\* given>; an already-built configuration object is returned as it is, and
\* its derived paths lie under <base directory>/<its own algorithm name>.
C8_PathsUnderConfiguredName ==
    Returned =>
        /\ out.arg.form \in {"mapping", "path"} =>
             /\ out.ret.algorithm_name = out.algorithm_name
             /\ AllUnder(out.ret, out.ret.directory_path \o out.algorithm_name)
        /\ out.arg.form = "object" =>
             /\ out.ret = out.arg.cfg
             /\ AllUnder(out.ret, out.ret.directory_path \o out.ret.algorithm_name)

C8_Witness ==
    /\ Returned
    /\ out.arg.form = "object"
    /\ out.algorithm_name = <<"iforest">>
    /\ out.ret.algorithm_name = <<"lof">>
    /\ <<"out", "lof">> \in fs_dirs

Again == handle_output_configuration(out.arg, out.algorithm_name, fs_dirs, fs_files, doc)

\* C9 as stated: after the resolver returns, the directories of the results
\* file, of the plots and of the raw scores all exist; a second call with
\* the same arguments succeeds and changes no directory; no file is created.
C9_AllDirectoriesExist ==
    [][ /\ fs_files' = fs_files
        /\ (out'.op = "resolve" /\ out'.err = NoError) =>
             /\ directory(out'.ret) \in fs_dirs'
             /\ anomaly_score_plots_directory_path(out'.ret) \in fs_dirs'
             /\ anomaly_scores_directory_path(out'.ret) \in fs_dirs'
             /\ Again'.err = NoError
             /\ Again'.dirs = fs_dirs' ]_vars

\* C9 amended: after the resolver returns, the directory of the results file
\* exists; the directory of the plots exists if save_anomaly_scores_plot is
\* set and that of the raw scores if save_anomaly_scores is set, unless an
\* entry that is not a directory already had that name, and neither is
\* created when its flag is unset; a second call with the same arguments
\* succeeds and changes no directory; no directory is removed and no file is
\* created.
C9_RequestedDirectoriesExist ==
    [][ /\ fs_files' = fs_files
        /\ fs_dirs \subseteq fs_dirs'
        /\ (out'.op = "resolve" /\ out'.err = NoError) =>
             LET oc == out'.ret
                 plots == anomaly_score_plots_directory_path(oc)
                 scores == anomaly_scores_directory_path(oc)
             IN /\ directory(oc) \in fs_dirs'
                /\ (oc.save_anomaly_scores_plot /\ plots \notin fs_files) => plots \in fs_dirs'
                /\ (oc.save_anomaly_scores /\ scores \notin fs_files) => scores \in fs_dirs'
                /\ ~oc.save_anomaly_scores_plot => (plots \in fs_dirs' <=> plots \in fs_dirs)
                /\ ~oc.save_anomaly_scores => (scores \in fs_dirs' <=> scores \in fs_dirs)
                /\ Again'.err = NoError
                /\ Again'.dirs = fs_dirs' ]_vars

C9_Witness ==
    /\ Returned
    /\ out.arg.form = "path"
    /\ out.ret.save_anomaly_scores_plot
    /\ out.ret.save_anomaly_scores
    /\ out.algorithm_name = <<"lof">>
    /\ <<"out", "lof", anomaly_scores_plots_directory>> \in fs_dirs
    /\ <<"out", "lof", anomaly_scores_directory>> \in fs_files
====
